---- MODULE Spec2Model ----
(***************************************************************************)
(* The incremental basic-statistics estimator of sklearnex                 *)
(* (sklearnex/basic_statistics/incremental_basic_statistics.py): the       *)
(* wrapper object, its partial_fit / fit / finalize / attribute-read       *)
(* operations, and the onedal accumulator it delegates to.                 *)
(*                                                                         *)
(* Data are exact: a dataset is a sequence of integer rows, statistics are *)
(* integers or unreduced fractions <<numerator, denominator>>.             *)
(***************************************************************************)
EXTENDS Integers, Sequences, FiniteSets, TLC

\* ---------------------------------------------------------------- bounds
\* Rows one aggregator may accumulate in all (the example datasets excepted).
MaxRows == 2
\* Explicit batch_size arguments are 1 .. MaxBatch (and the example's).
MaxBatch == 2
\* Workers of a distributed run are 1 .. MaxWorkers.
MaxWorkers == 2
\* The dataset of the partitioning example has 0 .. MaxSamples rows.
MaxSamples == 7

\* ----------------------------------------------------- Python-level values
\* An optional value: None, or a value v held as <<v>>.
None == <<>>

Some(v) == <<v>>

\* A str / a list of str, as isinstance tells them apart.
Str(s) == [kind |-> "str", v |-> <<s>>]

List(names) == [kind |-> "list", v |-> names]

Min2(a, b) == IF a <= b THEN a ELSE b

Max2(a, b) == IF a >= b THEN a ELSE b

\* Python's s[first:last] for 0 <= first <= last: indices past the end are cut.
Slice(s, first, last) == SubSeq(s, first + 1, Min2(last, Len(s)))

\* A 2D array: its column count (kept also when it has no rows) and its rows.
Array(c, rows) == [n_features |-> c, rows |-> rows]

\* ------------------------------------------------------------- the engine
\* The statistic vocabulary of the engine (docstring, lines 45-73).
get_all_result_options ==
    << "min", "max", "sum", "mean", "variance", "variation", "sum_squares",
       "standard_deviation", "sum_squares_centered", "second_order_raw_moment" >>

Range(s) == {s[i] : i \in 1..Len(s)}

\* One row folded into the accumulator: its values and its weight.
Row(x, w) == [x |-> x, w |-> w]

\* The rows of a batch paired with their weights (1 each when unweighted).
Weighted(X, weights) ==
    [i \in 1..Len(X.rows) |->
        Row(X.rows[i], IF weights = None THEN 1 ELSE weights[1][i])]

\* Identity sufficient statistics: nothing seen yet.
EmptyStats == [count |-> 0, sum |-> <<>>, sum_squares |-> <<>>,
               min |-> <<>>, max |-> <<>>]

RECURSIVE ColSum(_, _), ColSumSq(_, _), ColMin(_, _), ColMax(_, _)
ColSum(rs, j) ==
    IF rs = <<>> THEN 0 ELSE Head(rs).w * Head(rs).x[j] + ColSum(Tail(rs), j)

ColSumSq(rs, j) ==
    IF rs = <<>> THEN 0
    ELSE Head(rs).w * Head(rs).x[j] * Head(rs).x[j] + ColSumSq(Tail(rs), j)

ColMin(rs, j) ==
    IF Len(rs) = 1 THEN rs[1].x[j] ELSE Min2(rs[1].x[j], ColMin(Tail(rs), j))

ColMax(rs, j) ==
    IF Len(rs) = 1 THEN rs[1].x[j] ELSE Max2(rs[1].x[j], ColMax(Tail(rs), j))

RECURSIVE WeightSum(_)
WeightSum(rs) == IF rs = <<>> THEN 0 ELSE Head(rs).w + WeightSum(Tail(rs))

\* The statistics of one non-empty batch of weighted rows, taken alone.
BatchStats(rs) ==
    LET c == Len(rs[1].x)
    IN  [count |-> WeightSum(rs),
         sum |-> [j \in 1..c |-> ColSum(rs, j)],
         sum_squares |-> [j \in 1..c |-> ColSumSq(rs, j)],
         min |-> [j \in 1..c |-> ColMin(rs, j)],
         max |-> [j \in 1..c |-> ColMax(rs, j)]]

\* The closed-form merge of two sufficient statistics.
Merge(a, b) ==
    IF a.count = 0 THEN b
    ELSE IF b.count = 0 THEN a
    ELSE [count |-> a.count + b.count,
          sum |-> [j \in 1..Len(a.sum) |-> a.sum[j] + b.sum[j]],
          sum_squares |->
              [j \in 1..Len(a.sum) |-> a.sum_squares[j] + b.sum_squares[j]],
          min |-> [j \in 1..Len(a.sum) |-> Min2(a.min[j], b.min[j])],
          max |-> [j \in 1..Len(a.sum) |-> Max2(a.max[j], b.max[j])]]

\* One derived statistic, per column, from sufficient statistics.
Derive(name, s) ==
    [j \in 1..Len(s.sum) |->
        LET centered == s.count * s.sum_squares[j] - s.sum[j] * s.sum[j]
            variance == << centered, s.count * (s.count - 1) >>
            mean == << s.sum[j], s.count >>
        IN  CASE name = "min" -> s.min[j]
              [] name = "max" -> s.max[j]
              [] name = "sum" -> s.sum[j]
              [] name = "sum_squares" -> s.sum_squares[j]
              [] name = "mean" -> mean
              [] name = "second_order_raw_moment" ->
                     << s.sum_squares[j], s.count >>
              [] name = "sum_squares_centered" -> << centered, s.count >>
              [] name = "variance" -> variance
              [] name = "standard_deviation" -> << "sqrt", variance >>
              [] name = "variation" -> << "sqrt", variance, "over", mean >>]

\* The engine's accumulator object behind _onedal_estimator.
Estimator(options) == [result_option |-> options, partial |-> EmptyStats,
                       result |-> None]

\* One call made on the engine: its name and, for partial_fit, the shape of
\* what it was given (rows, columns, and the length of the weights if any).
Call(f) == [f |-> f, n |-> 0, c |-> 0, w |-> None]

PartialFitCall(X, weights) ==
    [f |-> "partial_fit", n |-> Len(X.rows), c |-> X.n_features,
     w |-> IF weights = None THEN None ELSE Some(Len(weights[1]))]

\* create_accumulator: the engine rejects names outside its vocabulary.
onedal_IncrementalBasicStatistics(params) ==
    IF Range(params.result_option.v) \subseteq Range(get_all_result_options)
    THEN [outcome |-> "ok", est |-> Estimator(params.result_option)]
    ELSE [outcome |-> "ConfigurationError", est |-> Estimator(params.result_option)]

\* The engine's partial_fit: rejects a batch of another column count and
\* weights that do not match the rows, else merges the batch's statistics.
onedal_partial_fit(est, X, weights) ==
    IF est.partial.count # 0 /\ X.n_features # Len(est.partial.sum)
    THEN [outcome |-> "DimensionMismatchError", detail |-> "columns", est |-> est]
    ELSE IF weights # None /\ Len(weights[1]) # Len(X.rows)
    THEN [outcome |-> "DimensionMismatchError", detail |-> "weights", est |-> est]
    ELSE [outcome |-> "ok", detail |-> "",
          est |-> [est EXCEPT
                     !.partial = Merge(@, BatchStats(Weighted(X, weights)))]]

\* The engine's finalize_fit: every requested statistic, from the current
\* sufficient statistics.
onedal_finalize_fit(est) ==
    [est EXCEPT !.result =
        Some([name \in Range(est.result_option.v) |-> Derive(name, est.partial)])]

\* Reading a result off the engine: defined once finalize_fit has run.
onedal_getattr(est, attr) ==
    IF est.result = None
    THEN [outcome |-> "NotFinalizedError", value |-> <<>>]
    ELSE [outcome |-> "ok", value |-> est.result[1][attr]]

\* -------------------------------------------------------------- sklearn
\* check_array: a 2D array needs at least one row and one column.
check_array(X) == Len(X.rows) >= 1 /\ X.n_features >= 1

\* check_array(..., ensure_2d=False) on weights: at least one sample.
check_weights(weights) == Len(weights[1]) >= 1

RECURSIVE full_batches(_, _, _)
full_batches(start, k, batch_size) ==
    IF k = 0 THEN <<>>
    ELSE << <<start, start + batch_size>> >>
         \o full_batches(start + batch_size, k - 1, batch_size)

\* gen_batches(n, batch_size): the slices [start, end) it yields, or None when
\* it raises ValueError. batch_size must be positive; validate_n tells the
\* releases that also reject n < 1 from the ones that yield nothing then.
gen_batches(n, batch_size, validate_n) ==
    IF batch_size < 1 \/ (validate_n /\ n < 1) THEN None
    ELSE LET k == n \div batch_size
             start == k * batch_size
         IN  Some(full_batches(0, k, batch_size)
                  \o (IF start < n THEN << <<start, n>> >> ELSE <<>>))

\* ---------------------------------------------------------- the wrapper
\* What a method leaves behind: the object, how the call ended (ok or the
\* exception raised), the value returned, what the exception's message names
\* (the attribute of an AttributeError, the dimension of a mismatch), the
\* engine calls made and the weighted rows the engine folded in.
Ret(self, outcome, value, detail, calls, acc) ==
    [self |-> self, outcome |-> outcome, value |-> value, detail |-> detail,
     calls |-> calls, acc |-> acc]

hasattr_onedal_estimator(self) == self._onedal_estimator # None

\* __init__ leaving the flag set.
__init___dirty(result_options, batch_size) ==
    [result_options |->
        IF result_options = Str("all") THEN List(get_all_result_options)
        ELSE result_options,
     _need_to_finalize |-> TRUE,
     batch_size |-> batch_size,
     _onedal_estimator |-> None]

__init__(result_options, batch_size) ==
    [result_options |->
        IF result_options = Str("all") THEN List(get_all_result_options)
        ELSE result_options,
     _need_to_finalize |-> FALSE,
     batch_size |-> batch_size,
     _onedal_estimator |-> None]

\* Joins a list into onedal_options, asserts that it is a str, and returns
\* the options it was given.
_get_onedal_result_options(self, options) == options

\* _onedal_finalize_fit leaving the flag as it was.
_onedal_finalize_fit_keeps_flag(self) ==
    IF ~hasattr_onedal_estimator(self)
    THEN Ret(self, "AssertionError", <<>>, "", <<>>, <<>>)
    ELSE Ret([self EXCEPT
                !._onedal_estimator = Some(onedal_finalize_fit(@[1]))],
             "ok", <<>>, "", << Call("finalize_fit") >>, <<>>)

_onedal_finalize_fit(self) ==
    IF ~hasattr_onedal_estimator(self)
    THEN Ret(self, "AssertionError", <<>>, "", <<>>, <<>>)
    ELSE Ret([self EXCEPT
                !._onedal_estimator = Some(onedal_finalize_fit(@[1])),
                !._need_to_finalize = FALSE],
             "ok", <<>>, "", << Call("finalize_fit") >>, <<>>)

\* _onedal_partial_fit building a new engine accumulator on every call.
_onedal_partial_fit_always_new(self, X, weights) ==
    LET new == onedal_IncrementalBasicStatistics(
                   [result_option |->
                        _get_onedal_result_options(self, self.result_options),
                    method |-> "by_default"])
        pf == onedal_partial_fit(new.est, X, weights)
        calls == << Call("create"), PartialFitCall(X, weights) >>
    IN  IF new.outcome # "ok"
        THEN Ret(self, new.outcome, <<>>, "", << Call("create") >>, <<>>)
        ELSE IF pf.outcome # "ok"
        THEN Ret([self EXCEPT !._onedal_estimator = Some(new.est)],
                 pf.outcome, <<>>, pf.detail, calls, <<>>)
        ELSE Ret([self EXCEPT !._onedal_estimator = Some(pf.est),
                              !._need_to_finalize = TRUE],
                 "ok", <<>>, "", calls, Weighted(X, weights))

\* _onedal_partial_fit raising the flag before it calls the engine.
_onedal_partial_fit_flag_first(self, X, weights) ==
    LET new == onedal_IncrementalBasicStatistics(
                   [result_option |->
                        _get_onedal_result_options(self, self.result_options),
                    method |-> "by_default"])
        create == ~hasattr_onedal_estimator(self)
        created == IF create THEN << Call("create") >> ELSE <<>>
    IN  IF create /\ new.outcome # "ok"
        THEN Ret(self, new.outcome, <<>>, "", created, <<>>)
        ELSE LET self1 == [self EXCEPT
                             !._onedal_estimator =
                                 IF create THEN Some(new.est) ELSE @,
                             !._need_to_finalize = TRUE]
                 pf == onedal_partial_fit(self1._onedal_estimator[1], X, weights)
                 calls == created \o << PartialFitCall(X, weights) >>
             IN  IF pf.outcome # "ok"
                 THEN Ret(self1, pf.outcome, <<>>, pf.detail, calls, <<>>)
                 ELSE Ret([self1 EXCEPT !._onedal_estimator = Some(pf.est)],
                          "ok", <<>>, "", calls, Weighted(X, weights))

\* _onedal_partial_fit refusing a batch once the engine holds results.
_onedal_partial_fit_sealed(self, X, weights) ==
    LET new == onedal_IncrementalBasicStatistics(
                   [result_option |->
                        _get_onedal_result_options(self, self.result_options),
                    method |-> "by_default"])
        create == ~hasattr_onedal_estimator(self)
        created == IF create THEN << Call("create") >> ELSE <<>>
    IN  IF create /\ new.outcome # "ok"
        THEN Ret(self, new.outcome, <<>>, "", created, <<>>)
        ELSE LET self1 == IF create
                          THEN [self EXCEPT !._onedal_estimator = Some(new.est)]
                          ELSE self
                 pf == onedal_partial_fit(self1._onedal_estimator[1], X, weights)
                 calls == created \o << PartialFitCall(X, weights) >>
             IN  IF self1._onedal_estimator[1].result # None
                 THEN Ret(self1, "RuntimeError", <<>>, "", <<>>, <<>>)
                 ELSE IF pf.outcome # "ok"
                 THEN Ret(self1, pf.outcome, <<>>, pf.detail, calls, <<>>)
                 ELSE Ret([self1 EXCEPT !._onedal_estimator = Some(pf.est),
                                        !._need_to_finalize = TRUE],
                          "ok", <<>>, "", calls, Weighted(X, weights))

\* _onedal_partial_fit finalizing as soon as the batch is in.
_onedal_partial_fit_eager(self, X, weights) ==
    LET new == onedal_IncrementalBasicStatistics(
                   [result_option |->
                        _get_onedal_result_options(self, self.result_options),
                    method |-> "by_default"])
        create == ~hasattr_onedal_estimator(self)
        created == IF create THEN << Call("create") >> ELSE <<>>
    IN  IF create /\ new.outcome # "ok"
        THEN Ret(self, new.outcome, <<>>, "", created, <<>>)
        ELSE LET self1 == IF create
                          THEN [self EXCEPT !._onedal_estimator = Some(new.est)]
                          ELSE self
                 pf == onedal_partial_fit(self1._onedal_estimator[1], X, weights)
                 calls == created \o << PartialFitCall(X, weights) >>
             IN  IF pf.outcome # "ok"
                 THEN Ret(self1, pf.outcome, <<>>, pf.detail, calls, <<>>)
                 ELSE Ret([self1 EXCEPT
                             !._onedal_estimator = Some(onedal_finalize_fit(pf.est)),
                             !._need_to_finalize = FALSE],
                          "ok", <<>>, "", calls \o << Call("finalize_fit") >>,
                          Weighted(X, weights))

_onedal_partial_fit(self, X, weights) ==
    LET onedal_params ==
            [result_option |->
                 _get_onedal_result_options(self, self.result_options),
             method |-> "by_default"]
        new == onedal_IncrementalBasicStatistics(onedal_params)
        create == ~hasattr_onedal_estimator(self)
        created == IF create THEN << Call("create") >> ELSE <<>>
    IN  IF create /\ new.outcome # "ok"
        THEN Ret(self, new.outcome, <<>>, "", created, <<>>)
        ELSE LET self1 == IF create
                          THEN [self EXCEPT !._onedal_estimator = Some(new.est)]
                          ELSE self
                 pf == onedal_partial_fit(self1._onedal_estimator[1], X, weights)
                 calls == created \o << PartialFitCall(X, weights) >>
             IN  IF pf.outcome # "ok"
                 THEN Ret(self1, pf.outcome, <<>>, pf.detail, calls, <<>>)
                 ELSE Ret([self1 EXCEPT !._onedal_estimator = Some(pf.est),
                                        !._need_to_finalize = TRUE],
                          "ok", <<>>, "", calls, Weighted(X, weights))

\* __getattr__ fetching the value without finalizing.
__getattr___no_finalize(self, attr) ==
    IF \/ self.result_options.kind = "str" /\ attr = self.result_options.v[1]
       \/ self.result_options.kind = "list" /\ attr \in Range(self.result_options.v)
    THEN IF ~hasattr_onedal_estimator(self)
         THEN Ret(self, "AttributeError", <<>>, "_onedal_estimator", <<>>, <<>>)
         ELSE LET got == onedal_getattr(self._onedal_estimator[1], attr)
              IN  Ret(self, got.outcome, got.value, "",
                      << Call("getattr") >>, <<>>)
    ELSE Ret(self, "AttributeError", <<>>, attr, <<>>, <<>>)

\* __getattr__ finalizing a dirty aggregator before it looks at the name.
__getattr___finalize_first(self, attr) ==
    LET fin == IF self._need_to_finalize
               THEN _onedal_finalize_fit(self)
               ELSE Ret(self, "ok", <<>>, "", <<>>, <<>>)
    IN  IF \/ self.result_options.kind = "str" /\ attr = self.result_options.v[1]
           \/ self.result_options.kind = "list"
              /\ attr \in Range(self.result_options.v)
        THEN IF fin.outcome # "ok" THEN fin
             ELSE IF ~hasattr_onedal_estimator(fin.self)
             THEN Ret(fin.self, "AttributeError", <<>>, "_onedal_estimator",
                      fin.calls, <<>>)
             ELSE LET got == onedal_getattr(fin.self._onedal_estimator[1], attr)
                  IN  Ret(fin.self, got.outcome, got.value, "",
                          fin.calls \o << Call("getattr") >>, <<>>)
        ELSE Ret(fin.self, "AttributeError", <<>>, attr, <<>>, <<>>)

\* The names read are never attributes the object holds, so the lookup in
\* __dict__ (lines 124-125) finds nothing.
__getattr__(self, attr) ==
    LET result_options == self.result_options
        is_statistic_attr ==
            \/ result_options.kind = "str" /\ attr = result_options.v[1]
            \/ result_options.kind = "list" /\ attr \in Range(result_options.v)
    IN  IF is_statistic_attr
        THEN LET fin == IF self._need_to_finalize
                        THEN _onedal_finalize_fit(self)
                        ELSE Ret(self, "ok", <<>>, "", <<>>, <<>>)
             IN  IF fin.outcome # "ok" THEN fin
                 ELSE IF ~hasattr_onedal_estimator(fin.self)
                 THEN Ret(fin.self, "AttributeError", <<>>, "_onedal_estimator",
                          fin.calls, <<>>)
                 ELSE LET got == onedal_getattr(fin.self._onedal_estimator[1], attr)
                      IN  Ret(fin.self, got.outcome, got.value, "",
                              fin.calls \o << Call("getattr") >>, <<>>)
        ELSE Ret(self, "AttributeError", <<>>, attr, <<>>, <<>>)

\* partial_fit raising the flag also when the validation fails.
partial_fit_flags_invalid(self, X, weights) ==
    IF ~check_array(X) \/ (weights # None /\ ~check_weights(weights))
    THEN Ret([self EXCEPT !._need_to_finalize = TRUE],
             "ValueError", <<>>, "", <<>>, <<>>)
    ELSE _onedal_partial_fit(self, X, weights)

partial_fit(self, X, weights) ==
    IF ~check_array(X) THEN Ret(self, "ValueError", <<>>, "", <<>>, <<>>)
    ELSE IF weights # None /\ ~check_weights(weights)
    THEN Ret(self, "ValueError", <<>>, "", <<>>, <<>>)
    ELSE _onedal_partial_fit(self, X, weights)

\* The loop of fit cutting the weights of every batch from the start of the
\* weights array.
RECURSIVE fit_batches_weights_from_start(_, _, _, _)
fit_batches_weights_from_start(self, X, weights, batches) ==
    IF batches = <<>> THEN Ret(self, "ok", <<>>, "", <<>>, <<>>)
    ELSE LET batch == Head(batches)
             X_batch == Array(X.n_features, Slice(X.rows, batch[1], batch[2]))
             weights_batch ==
                 IF weights # None
                 THEN Some(Slice(weights[1], 0, batch[2] - batch[1]))
                 ELSE None
             r == partial_fit(self, X_batch, weights_batch)
         IN  IF r.outcome # "ok" THEN r
             ELSE LET rest == fit_batches_weights_from_start(
                                  r.self, X, weights, Tail(batches))
                  IN  Ret(rest.self, rest.outcome, <<>>, rest.detail,
                          r.calls \o rest.calls, r.acc \o rest.acc)

\* The loop of fit over the slices still to do; an exception of partial_fit
\* ends it with what the calls before, and the failing call, have done.
RECURSIVE fit_batches(_, _, _, _)
fit_batches(self, X, weights, batches) ==
    IF batches = <<>> THEN Ret(self, "ok", <<>>, "", <<>>, <<>>)
    ELSE LET batch == Head(batches)
             X_batch == Array(X.n_features, Slice(X.rows, batch[1], batch[2]))
             weights_batch ==
                 IF weights # None
                 THEN Some(Slice(weights[1], batch[1], batch[2]))
                 ELSE None
             r == partial_fit(self, X_batch, weights_batch)
         IN  IF r.outcome # "ok" THEN r
             ELSE LET rest == fit_batches(r.self, X, weights, Tail(batches))
                  IN  Ret(rest.self, rest.outcome, <<>>, rest.detail,
                          r.calls \o rest.calls, r.acc \o rest.acc)

\* fit keeping the batch size it worked out in self.batch_size.
fit_stores_batch_size(self, X, weights, validate_n) ==
    LET batch_size_ == IF self.batch_size = None THEN 5 * X.n_features
                       ELSE self.batch_size[1]
        self1 == [self EXCEPT !.batch_size = Some(batch_size_)]
        batches == gen_batches(Len(X.rows), batch_size_, validate_n)
    IN  IF batches = None THEN Ret(self1, "ValueError", <<>>, "", <<>>, <<>>)
        ELSE LET loop == fit_batches(self1, X, weights, batches[1])
             IN  IF loop.outcome # "ok" THEN loop
                 ELSE LET fin == _onedal_finalize_fit(loop.self)
                      IN  Ret(fin.self, fin.outcome, <<>>, "",
                              loop.calls \o fin.calls, loop.acc)

\* fit starting from a new engine accumulator.
fit_resetting(self, X, weights, validate_n) ==
    LET batch_size_ == IF self.batch_size = None THEN 5 * X.n_features
                       ELSE self.batch_size[1]
        self1 == [self EXCEPT !._onedal_estimator = None]
        batches == gen_batches(Len(X.rows), batch_size_, validate_n)
    IN  IF batches = None THEN Ret(self, "ValueError", <<>>, "", <<>>, <<>>)
        ELSE LET loop == fit_batches(self1, X, weights, batches[1])
             IN  IF loop.outcome # "ok" THEN loop
                 ELSE LET fin == _onedal_finalize_fit(loop.self)
                      IN  Ret(fin.self, fin.outcome, <<>>, "",
                              loop.calls \o fin.calls, loop.acc)

\* fit returning after the last batch, with no finalize.
fit_no_finalize(self, X, weights, validate_n) ==
    LET batch_size_ == IF self.batch_size = None THEN 5 * X.n_features
                       ELSE self.batch_size[1]
        batches == gen_batches(Len(X.rows), batch_size_, validate_n)
    IN  IF batches = None THEN Ret(self, "ValueError", <<>>, "", <<>>, <<>>)
        ELSE fit_batches(self, X, weights, batches[1])

\* fit passing no weights on to partial_fit.
fit_unweighted(self, X, weights, validate_n) ==
    LET batch_size_ == IF self.batch_size = None THEN 5 * X.n_features
                       ELSE self.batch_size[1]
        batches == gen_batches(Len(X.rows), batch_size_, validate_n)
    IN  IF batches = None THEN Ret(self, "ValueError", <<>>, "", <<>>, <<>>)
        ELSE LET loop == fit_batches(self, X, None, batches[1])
             IN  IF loop.outcome # "ok" THEN loop
                 ELSE LET fin == _onedal_finalize_fit(loop.self)
                      IN  Ret(fin.self, fin.outcome, <<>>, "",
                              loop.calls \o fin.calls, loop.acc)

fit(self, X, weights, validate_n) ==
    LET n_samples == Len(X.rows)
        n_features == X.n_features
        batch_size_ == IF self.batch_size = None THEN 5 * n_features
                       ELSE self.batch_size[1]
        batches == gen_batches(n_samples, batch_size_, validate_n)
    IN  IF batches = None THEN Ret(self, "ValueError", <<>>, "", <<>>, <<>>)
        ELSE LET loop == fit_batches(self, X, weights, batches[1])
             IN  IF loop.outcome # "ok" THEN loop
                 ELSE LET fin == _onedal_finalize_fit(loop.self)
                      IN  Ret(fin.self, fin.outcome, <<>>, "",
                              loop.calls \o fin.calls, loop.acc)

\* ------------------------------------------------------------ the state
VARIABLES
    result_options,       \* self.result_options
    batch_size,           \* self.batch_size
    _need_to_finalize,    \* self._need_to_finalize
    _onedal_estimator,    \* self._onedal_estimator, None while the attribute is unset
    seen,                 \* history: the weighted rows the engine has folded in
    last,                 \* history: the last call and how it ended
    calls,                \* history: the engine calls the last call made
    spmd,                 \* the distributed run: its dataset, workers and result
    dbscan                \* the partitioning example: its dataset and slices

vars == << result_options, batch_size, _need_to_finalize, _onedal_estimator,
           seen, last, calls, spmd, dbscan >>

Self == [result_options |-> result_options, batch_size |-> batch_size,
         _need_to_finalize |-> _need_to_finalize,
         _onedal_estimator |-> _onedal_estimator]

\* ------------------------------------------------------------ the inputs
WeightValues == {1, 2}

Features == {1, 2}

SeqsOf(S, lo, hi) == UNION {[1..k -> S] : k \in lo..hi}

\* The dataset of the example (lines 41 and 25-31) and its three batches.
ExampleX == Array(2, << <<0, 1>>, <<0, 1>>, <<1, 2>>, <<1, 1>>, <<1, 2>>, <<2, 3>> >>)

X_1 == Array(2, SubSeq(ExampleX.rows, 1, 2))

X_2 == Array(2, SubSeq(ExampleX.rows, 3, 3))

X_3 == Array(2, SubSeq(ExampleX.rows, 4, 6))

\* The first column of the example dataset: more rows than 5 * n_features.
ExampleColumn == Array(1, [i \in 1..Len(ExampleX.rows) |-> << ExampleX.rows[i][1] >>])

Examples == {ExampleX, X_1, X_2, X_3, ExampleColumn}

\* The rows of a c-column dataset.
RowsOf(c) == IF c = 1 THEN {<<0>>, <<1>>} ELSE {<<0, 1>>, <<1, 0>>}

\* The weights tried with a dataset: none, every weighting of its rows, and
\* arrays one too short and one too long.
WeightsFor(X) ==
    LET n == Len(X.rows)
    IN  IF n = 0 THEN {None}
        ELSE {None} \cup {Some(w) : w \in [1..n -> WeightValues]}
             \cup {Some([i \in 1..k |-> 1]) : k \in {n - 1, n + 1}}

\* The datasets of at most n rows, each with the weights tried with it.
BoundedInputs(n) ==
    UNION {UNION {{<<Array(c, rows), w>> : w \in WeightsFor(Array(c, rows))} :
                  rows \in SeqsOf(RowsOf(c), 0, n)} :
           c \in Features}

IsPrefix(s, t) == Len(s) <= Len(t) /\ SubSeq(t, 1, Len(s)) = s

ExampleRows == {Weighted(E, None) : E \in {ExampleX, ExampleColumn}}

\* The calls tried in a state: the rows an aggregator is given stay within
\* MaxRows, or they replay an example, unweighted.
Inputs ==
    BoundedInputs(MaxRows - Len(seen)) \cup
    {<<X, None>> : X \in {E \in Examples :
        \E rs \in ExampleRows : IsPrefix(seen \o Weighted(E, None), rs)}}

\* The constructor arguments tried: result_options as "all", one name, a list
\* of names and a list holding a name outside the vocabulary; batch_size
\* unset, 1 .. MaxBatch and the example's (line 40).
ExampleBatchSize == 3

ExampleOptions == List(<< "mean", "max", "sum" >>)

ConstructArgs ==
    {<<ro, None>> : ro \in {Str("all"), Str("sum"), ExampleOptions,
                            List(<< "sum", "bogus" >>)}}
    \cup {<<ExampleOptions, Some(b)>> : b \in (1..MaxBatch) \cup {ExampleBatchSize}}

\* The names read: statistics of the vocabulary and a name outside it.
Attrs == {"min", "max", "sum", "mean", "bogus"}

\* The record of a call: its name, the attribute read, how it ended, and the
\* arguments of a partial_fit or fit that succeeded.
Ended(op, attr, args, r) ==
    [op |-> op, attr |-> attr, outcome |-> r.outcome, value |-> r.value,
     detail |-> r.detail, args |-> IF r.outcome = "ok" THEN args ELSE <<>>]

\* ------------------------------------------------------ the distributed run
\* No distributed run started.
NoRun == [X |-> Array(1, <<>>), size |-> 0, workers |-> <<>>, result |-> None]

\* _get_local_tensor keeping the row after its range as well.
_get_local_tensor_overlapping(X, rank, size) ==
    LET data_rows == Len(X.rows)
    IN  Array(X.n_features,
              Slice(X.rows, (rank * data_rows) \div size,
                    ((1 + rank) * data_rows) \div size + 1))

\* The rows of X that the worker of this rank (0 .. size-1) is given.
_get_local_tensor(X, rank, size) ==
    LET data_rows == Len(X.rows)
        local_start == (rank * data_rows) \div size
        local_end == ((1 + rank) * data_rows) \div size
    IN  Array(X.n_features, Slice(X.rows, local_start, local_end))

\* The sufficient statistics a worker's estimator holds.
LocalStats(w) ==
    IF hasattr_onedal_estimator(w.self) THEN w.self._onedal_estimator[1].partial
    ELSE EmptyStats

\* The collective reduction: the workers' sufficient statistics merged in the
\* order given, from the left or from the right.
RECURSIVE MergeLeft(_, _), MergeRight(_, _)
MergeLeft(workers, order) ==
    IF Len(order) = 1 THEN LocalStats(workers[order[1]])
    ELSE Merge(MergeLeft(workers, SubSeq(order, 1, Len(order) - 1)),
               LocalStats(workers[order[Len(order)]]))

MergeRight(workers, order) ==
    IF Len(order) = 1 THEN LocalStats(workers[order[1]])
    ELSE Merge(LocalStats(workers[order[1]]), MergeRight(workers, Tail(order)))

reduce_accumulators(workers, order, left) ==
    IF left THEN MergeLeft(workers, order) ELSE MergeRight(workers, order)

\* The orders in which size workers can be merged.
Orders(size) ==
    {p \in [1..size -> 1..size] : \A i, j \in 1..size : p[i] = p[j] => i = j}

\* The datasets of a distributed run: at least one row for every worker.
SpmdDatasets(size) ==
    UNION {{Array(c, rows) : rows \in SeqsOf(RowsOf(c), size, MaxRows + MaxWorkers)} :
           c \in Features}

\* ------------------------------------------------ the partitioning example
\* The example not started.
NotLoaded == [n_samples |-> 0, size |-> 0, train |-> <<>>, test |-> None,
              slice |-> None]

\* load_digits: the rows of the dataset, each told by its index 0 .. n-1.
load_digits == [i \in 1..dbscan.n_samples |-> i - 1]

get_data_slice(chunk, count) ==
    IF ~(chunk < count)
    THEN [outcome |-> "AssertionError", chunk |-> chunk, count |-> count,
          rows |-> <<>>]
    ELSE LET X == load_digits
             n_samples == Len(X)
             size == n_samples \div count
             first == chunk * size
             last_ == first + size
         IN  [outcome |-> "ok", chunk |-> chunk, count |-> count,
              rows |-> Slice(X, first, last_)]

\* get_train_data cutting the dataset into as many chunks as workers.
get_train_data_no_test_chunk(rank, size) == get_data_slice(rank, size)

get_train_data(rank, size) == get_data_slice(rank, size + 1)

get_test_data(size) == get_data_slice(size, size + 1)

\* ----------------------------------------------------------- the actions
Becomes(op, attr, args, ret) ==
    LET r == ret IN
    /\ result_options' = r.self.result_options
    /\ batch_size' = r.self.batch_size
    /\ _need_to_finalize' = r.self._need_to_finalize
    /\ _onedal_estimator' = r.self._onedal_estimator
    /\ seen' = seen \o r.acc
    /\ last' = Ended(op, attr, args, r)
    /\ calls' = r.calls
    /\ UNCHANGED << spmd, dbscan >>

\* incbs = IncrementalBasicStatistics(result_options, batch_size)
Construct(ro, bs) ==
    /\ result_options' = __init__(ro, bs).result_options
    /\ batch_size' = __init__(ro, bs).batch_size
    /\ _need_to_finalize' = __init__(ro, bs)._need_to_finalize
    /\ _onedal_estimator' = __init__(ro, bs)._onedal_estimator
    /\ seen' = <<>>
    /\ last' = [op |-> "__init__", attr |-> "", outcome |-> "ok",
                value |-> <<>>, detail |-> "", args |-> <<>>]
    /\ calls' = <<>>
    /\ UNCHANGED << spmd, dbscan >>

PartialFit(X, weights) ==
    Becomes("partial_fit", "", << X, weights >>, partial_fit(Self, X, weights))

Fit(X, weights, validate_n) ==
    /\ validate_n \/ X.rows = <<>>
    /\ Becomes("fit", "", << X, weights >>, fit(Self, X, weights, validate_n))

Finalize == Becomes("finalize", "", <<>>, _onedal_finalize_fit(Self))

Get(attr) == Becomes("get", attr, <<>>, __getattr__(Self, attr))

Init ==
    /\ result_options = __init__(ExampleOptions, None).result_options
    /\ batch_size = __init__(ExampleOptions, None).batch_size
    /\ _need_to_finalize = FALSE
    /\ _onedal_estimator = None
    /\ seen = <<>>
    /\ last = [op |-> "__init__", attr |-> "", outcome |-> "ok",
               value |-> <<>>, detail |-> "", args |-> <<>>]
    /\ calls = <<>>
    /\ spmd = NoRun
    /\ dbscan = NotLoaded

Next ==
    \/ \E args \in ConstructArgs : Construct(args[1], args[2])
    \/ \E in \in Inputs : PartialFit(in[1], in[2])
    \/ \E in \in Inputs, validate_n \in BOOLEAN : Fit(in[1], in[2], validate_n)
    \/ Finalize
    \/ \E attr \in Attrs : Get(attr)

Spec == Init /\ [][Next]_vars

\* --------------------------------------------- the distributed run's actions
WrapperVars == << result_options, batch_size, _need_to_finalize,
                  _onedal_estimator, seen, last, calls >>

\* The run starts: X is split over size workers, each with an estimator of
\* its own.
SpmdStart(X, size) ==
    /\ spmd = NoRun
    /\ spmd' = [X |-> X, size |-> size,
                workers |-> [r \in 1..size |->
                                [self |-> __init__(ExampleOptions, None),
                                 fed |-> 0, fitted |-> FALSE, blocks |-> <<>>]],
                result |-> None]
    /\ UNCHANGED << WrapperVars, dbscan >>

\* incpca_spmd.fit(local_X) on the worker of this rank.
SpmdFit(rank) ==
    LET w == spmd.workers[rank + 1]
        local_X == _get_local_tensor(spmd.X, rank, spmd.size)
        r == fit(w.self, local_X, None, TRUE)
    IN  /\ spmd.result = None
        /\ w.fed = 0
        /\ r.outcome = "ok"
        /\ spmd' = [spmd EXCEPT !.workers[rank + 1] =
                       [self |-> r.self, fed |-> Len(r.acc), fitted |-> TRUE,
                        blocks |-> <<>>]]
        /\ UNCHANGED << WrapperVars, dbscan >>

\* incpca_spmd.partial_fit on the next k rows of the worker's local data.
SpmdPartialFit(rank, k) ==
    LET w == spmd.workers[rank + 1]
        local_X == _get_local_tensor(spmd.X, rank, spmd.size)
        block == Array(local_X.n_features, Slice(local_X.rows, w.fed, w.fed + k))
        r == partial_fit(w.self, block, None)
    IN  /\ spmd.result = None
        /\ ~w.fitted
        /\ w.fed + k <= Len(local_X.rows)
        /\ r.outcome = "ok"
        /\ spmd' = [spmd EXCEPT !.workers[rank + 1] =
                       [self |-> r.self, fed |-> w.fed + Len(r.acc),
                        fitted |-> FALSE, blocks |-> w.blocks \o << k >>]]
        /\ UNCHANGED << WrapperVars, dbscan >>

\* Every worker has fed its local data: the accumulators are reduced and the
\* requested statistics derived from the merged one.
SpmdFinalize(order, left) ==
    /\ spmd.size >= 1
    /\ spmd.result = None
    /\ \A rank \in 0..(spmd.size - 1) :
           spmd.workers[rank + 1].fed
               = Len(_get_local_tensor(spmd.X, rank, spmd.size).rows)
    /\ spmd' = [spmd EXCEPT !.result =
                   Some([order |-> order, left |-> left,
                         values |-> [name \in Range(ExampleOptions.v) |->
                             Derive(name, reduce_accumulators(spmd.workers, order, left))]])]
    /\ UNCHANGED << WrapperVars, dbscan >>

NextSpmd ==
    \/ \E size \in 1..MaxWorkers : \E X \in SpmdDatasets(size) : SpmdStart(X, size)
    \/ \E rank \in 0..(spmd.size - 1) : SpmdFit(rank)
    \/ \E rank \in 0..(spmd.size - 1), k \in 1..(MaxRows + MaxWorkers) :
           SpmdPartialFit(rank, k)
    \/ \E order \in Orders(spmd.size), left \in BOOLEAN : SpmdFinalize(order, left)

SpecSpmd == Init /\ [][NextSpmd]_vars

\* ----------------------------------------- the partitioning example's actions
\* size = comm.Get_size() workers start on a dataset of n_samples rows.
MpiStart(n_samples, size) ==
    /\ dbscan = NotLoaded
    /\ dbscan' = [n_samples |-> n_samples, size |-> size,
                  train |-> [r \in 1..size |-> None], test |-> None,
                  slice |-> None]
    /\ UNCHANGED << WrapperVars, spmd >>

\* X, _ = get_train_data(rank, size) on the worker of this rank.
GetTrainData(rank) ==
    /\ dbscan.train[rank + 1] = None
    /\ dbscan' = [dbscan EXCEPT
                    !.train[rank + 1] = Some(get_train_data(rank, dbscan.size))]
    /\ UNCHANGED << WrapperVars, spmd >>

GetTestData ==
    /\ dbscan.size >= 1
    /\ dbscan.test = None
    /\ dbscan' = [dbscan EXCEPT !.test = Some(get_test_data(dbscan.size))]
    /\ UNCHANGED << WrapperVars, spmd >>

\* get_data_slice called with a chunk index of its caller's choice.
GetDataSlice(chunk, count) ==
    /\ dbscan.size >= 1
    /\ dbscan' = [dbscan EXCEPT !.slice = Some(get_data_slice(chunk, count))]
    /\ UNCHANGED << WrapperVars, spmd >>

NextDbscan ==
    \/ \E n_samples \in 0..MaxSamples, size \in 1..MaxWorkers :
           MpiStart(n_samples, size)
    \/ \E rank \in 0..(dbscan.size - 1) : GetTrainData(rank)
    \/ GetTestData
    \/ \E count \in 1..(dbscan.size + 1), chunk \in 0..(dbscan.size + 2) :
           GetDataSlice(chunk, count)

SpecDbscan == Init /\ [][NextDbscan]_vars

\* ------------------------------------------------------------ the claims
\* The names an aggregator was asked for.
Requested == Range(result_options.v)

\* The sufficient statistics of one accumulate over rows rs, from nothing.
OneShot(rs) == Merge(EmptyStats, BatchStats(rs))

IsGet == last.op = "get" /\ last.outcome = "ok"

\* C1: whatever way the rows came in (one batch or many, with reads and
\* finalize calls in between), the accumulator holds, and a read returns, the
\* statistic of one accumulate over the concatenation of all the batches.
C1_IncrementalEqualsSingle ==
    seen # <<>> =>
        /\ _onedal_estimator # None
        /\ _onedal_estimator[1].partial = OneShot(seen)
        /\ IsGet => last.value = Derive(last.attr, OneShot(seen))

\* The first two batches of the example went in one after the other, and sum
\* was read.
C1_Witness ==
    /\ seen = Weighted(X_1, None) \o Weighted(X_2, None)
    /\ IsGet /\ last.attr = "sum" /\ last.value = <<1, 4>>

\* The three batches of the example give sum = [5, 10], max = [2, 3] and
\* mean = [5/6, 10/6].
C1_ExampleWitness ==
    /\ seen = Weighted(ExampleX, None)
    /\ batch_size = None
    /\ IsGet /\ last.attr = "mean" /\ last.value = << <<5, 6>>, <<10, 6>> >>

\* A freshly constructed aggregator: nothing but what __init__ has set.
Fresh == Self = __init__(result_options, batch_size)

\* What reading name off an aggregator gives: how the read ends and its value.
ReadOf(self, name) ==
    LET got == __getattr__(self, name) IN << got.outcome, got.value >>

\* C2: fit(D) on a fresh aggregator leaves, for every batch_size set (also
\* unset), the results one partial_fit(D) on that aggregator leaves; the
\* example dataset with batch_size = 3 gives sum = [5, 10] and max = [2, 3].
C2_FitEqualsSinglePartialFit ==
    [][(last'.op = "fit" /\ last'.outcome = "ok" /\ Fresh) =>
        LET X == last'.args[1]
            weights == last'.args[2]
            single == partial_fit(Self, X, weights)
        IN  single.outcome = "ok" =>
                /\ \A name \in Requested :
                       /\ ReadOf(Self', name) = ReadOf(single.self, name)
                       /\ ReadOf(Self', name)[1] = "ok"
                /\ (X = ExampleX /\ batch_size = Some(ExampleBatchSize)) =>
                       /\ ReadOf(Self', "sum") = << "ok", <<5, 10>> >>
                       /\ ReadOf(Self', "max") = << "ok", <<2, 3>> >>
      ]_vars

\* fit of the example dataset with batch_size = 3 has run on a fresh
\* aggregator: two batches of three rows.
C2_Witness ==
    /\ last.op = "fit" /\ last.outcome = "ok" /\ last.args = << ExampleX, None >>
    /\ batch_size = Some(ExampleBatchSize)
    /\ seen = Weighted(ExampleX, None)
    /\ Len(calls) = 4 /\ calls[1].f = "create"
    /\ calls[2].n = 3 /\ calls[3].n = 3

\* The wrapper's own state and the rows folded in: all but the record of the
\* last call.
object == << result_options, batch_size, _need_to_finalize, _onedal_estimator,
             seen >>

\* C3: a read that returns a value leaves the aggregator clean; when it
\* started dirty the engine finalized before the value was fetched; the value
\* is the statistic of all that was accumulated.
C3_ReadNeverStale ==
    [][(last'.op = "get" /\ last'.outcome = "ok") =>
        /\ ~_need_to_finalize'
        /\ _need_to_finalize =>
               calls' = << Call("finalize_fit"), Call("getattr") >>
        /\ last'.value = Derive(last'.attr, _onedal_estimator'[1].partial)
        /\ seen' # <<>> => last'.value = Derive(last'.attr, OneShot(seen'))
      ]_vars

\* A read has finalized by itself and returned a value.
C3_Witness ==
    /\ IsGet /\ seen # <<>>
    /\ calls = << Call("finalize_fit"), Call("getattr") >>

\* C4: a finalize call never fails, and on a clean aggregator it does
\* nothing: no engine call, no change of the flag or of the results.
C4_FinalizeIdempotent ==
    [][last'.op = "finalize" =>
        /\ last'.outcome = "ok"
        /\ ~_need_to_finalize =>
               calls' = <<>> /\ UNCHANGED << _need_to_finalize, _onedal_estimator >>
      ]_vars

\* C5: a partial_fit call that fails leaves the aggregator as it was.
C5_AccumulateAllOrNothing ==
    [][(last'.op = "partial_fit" /\ last'.outcome # "ok") => UNCHANGED object]_vars

\* The engine was handed a batch whose column count is not the one of the
\* rows folded in before.
MismatchedBatch ==
    /\ seen # <<>>
    /\ \E i \in 1..Len(calls') :
           calls'[i].f = "partial_fit" /\ calls'[i].c # Len(seen[1].x)

C7_UnsupportedRejectedAtConstruction ==
    Requested \subseteq Range(get_all_result_options)

\* C8: a read of a name that was not requested fails with an AttributeError
\* naming it, calls nothing on the engine and changes nothing.
C8_UnrequestedReadFails ==
    [][(last'.op = "get" /\ last'.attr \notin Requested') =>
        /\ last'.outcome = "AttributeError"
        /\ last'.detail = last'.attr
        /\ calls' = <<>>
        /\ UNCHANGED object
      ]_vars

\* A dirty aggregator has refused a name that was not requested, and stays
\* dirty.
C8_Witness ==
    /\ last.op = "get" /\ last.attr \notin Requested
    /\ last.outcome = "AttributeError"
    /\ _need_to_finalize

\* C9: a read of a requested name before any batch was accumulated returns a
\* value or fails with an error of its own, never with an AttributeError for
\* the internal _onedal_estimator.
C9_EmptyReadDecided ==
    (last.op = "get" /\ last.attr \in Requested /\ seen = <<>>) =>
        /\ last.outcome \in {"ok", "EmptyStateError"}
        /\ ~(last.outcome = "AttributeError" /\ last.detail = "_onedal_estimator")

\* The i-th batch of size b: rows (i-1)*b .. min(i*b, n) of X, and the
\* weights at the same positions.
BatchOf(X, weights, i, b) ==
    LET first == (i - 1) * b
        end == Min2(i * b, Len(X.rows))
    IN  << Array(X.n_features, Slice(X.rows, first, end)),
           IF weights = None THEN None
           ELSE Some(Slice(weights[1], first, end)) >>

\* C10: fit of n >= 1 rows with effective batch size b >= 1 makes ceil(n / b)
\* partial_fit calls on the engine, the i-th on rows (i-1)*b .. min(i*b, n),
\* every row going in once and in order, then one finalize_fit, and leaves
\* the aggregator clean.
C10_FitBatchesThenFinalize ==
    [][(last'.op = "fit" /\ last'.outcome = "ok") =>
        LET X == last'.args[1]
            weights == last'.args[2]
            n == Len(X.rows)
            b == IF batch_size = None THEN 5 * X.n_features ELSE batch_size[1]
            k == (n + b - 1) \div b
        IN  (n >= 1 /\ b >= 1) =>
                /\ calls' =
                       (IF _onedal_estimator = None
                        THEN << Call("create") >> ELSE <<>>)
                       \o [i \in 1..k |->
                              PartialFitCall(BatchOf(X, weights, i, b)[1],
                                             BatchOf(X, weights, i, b)[2])]
                       \o << Call("finalize_fit") >>
                /\ seen' = seen \o Weighted(X, weights)
                /\ ~_need_to_finalize'
      ]_vars

\* fit with batch_size unset has split six rows of one column into a batch of
\* five and a batch of one.
C10_Witness ==
    /\ last.op = "fit" /\ last.outcome = "ok" /\ last.args = << ExampleColumn, None >>
    /\ batch_size = None
    /\ seen = Weighted(ExampleColumn, None)
    /\ Len(calls) = 4 /\ calls[2].n = 5 /\ calls[3].n = 1
    /\ calls[4] = Call("finalize_fit")

\* The engine finalize calls among the calls cs.
FinalizeCalls(cs) == Cardinality({i \in 1..Len(cs) : cs[i].f = "finalize_fit"})

\* A read of a requested statistic starts on a dirty aggregator.
DirtyRead == last'.op = "get" /\ last'.attr \in Requested /\ _need_to_finalize

\* C11: partial_fit never calls the engine's finalize; a read calls it once,
\* first of all, when it is of a requested statistic and the aggregator is
\* dirty, and then leaves the aggregator clean, so that the reads after it
\* call it no more; any other read does not call it; fit calls it at most
\* once, as the last thing it does.
C11_AccumulateIsLazy ==
    [][/\ last'.op = "partial_fit" => FinalizeCalls(calls') = 0
       /\ last'.op = "get" =>
              FinalizeCalls(calls') = (IF DirtyRead THEN 1 ELSE 0)
       /\ DirtyRead =>
              /\ calls'[1] = Call("finalize_fit")
              /\ ~_need_to_finalize'
       /\ last'.op = "fit" =>
              /\ FinalizeCalls(calls') <= 1
              /\ FinalizeCalls(calls') = 1 =>
                     /\ calls'[Len(calls')] = Call("finalize_fit")
                     /\ last'.outcome = "ok"
      ]_vars

\* Rows were accumulated and a read found the aggregator clean: it fetched
\* the value with no finalize of its own.
C11_Witness ==
    /\ IsGet /\ seen # <<>>
    /\ calls = << Call("getattr") >>
    /\ last.value = Derive(last.attr, OneShot(seen))

\* C13: a misaligned weights array is never silently accepted: no
\* partial_fit and no fit succeeds with weights whose length is not the row
\* count of the data they came with.
C13_MisalignedWeightsRejected ==
    [][(/\ last'.op \in {"partial_fit", "fit"}
        /\ last'.outcome = "ok"
        /\ last'.args[2] # None) =>
           Len(last'.args[2][1]) = Len(last'.args[1].rows)
      ]_vars

\* C14: right after construction, whatever the arguments, nothing is
\* accumulated, no engine accumulator exists and the flag is false.
C14_ConstructedEmpty ==
    last.op = "__init__" =>
        /\ seen = <<>>
        /\ ~hasattr_onedal_estimator(Self)
        /\ ~_need_to_finalize

\* An aggregator was constructed with result_options = "all" and one with the
\* example's batch_size.
C14_Witness ==
    /\ last.op = "__init__"
    /\ \/ result_options = List(get_all_result_options)
       \/ batch_size = Some(ExampleBatchSize)
    /\ calls = <<>>

\* The batches that are valid for the aggregator as it is: one row of the
\* column count seen so far (of any, when nothing was seen), unweighted or
\* with its weight.
ValidBatches ==
    UNION {{<< Array(c, << row >>), w >> :
               row \in RowsOf(c),
               w \in {None} \cup {Some(<< v >>) : v \in WeightValues}} :
           c \in {f \in Features : seen = <<>> \/ f = Len(seen[1].x)}}

\* C15: in every state of an aggregator whose requested names are supported,
\* a valid partial_fit is accepted and leaves the flag set, and a read of a
\* requested statistic after it returns a value and leaves the flag clear.
C15_NoTerminalState ==
    Requested \subseteq Range(get_all_result_options) =>
        \A in \in ValidBatches :
            LET r == partial_fit(Self, in[1], in[2])
            IN  /\ r.outcome = "ok"
                /\ r.self._need_to_finalize
                /\ \A name \in Requested :
                       LET g == __getattr__(r.self, name)
                       IN  g.outcome = "ok" /\ ~g.self._need_to_finalize

\* A finalized aggregator has accepted another batch and is dirty again.
C15_Witness ==
    /\ last.op = "partial_fit" /\ last.outcome = "ok"
    /\ _need_to_finalize
    /\ _onedal_estimator[1].result # None
    /\ Len(seen) > Len(last.args[1].rows)

\* C16: the flag is false after construction; a step that ends with an
\* engine finalize leaves it false, one that folded rows in and did not
\* finalize after them leaves it true, and any other step (a failed
\* partial_fit, a read of a name not requested, a read while clean) leaves
\* it as it was.
C16_DirtyIffAccumulatedSinceFinalize ==
    [][IF last'.op = "__init__" THEN ~_need_to_finalize'
       ELSE _need_to_finalize' =
                (IF FinalizeCalls(calls') > 0 THEN FALSE
                 ELSE IF seen' # seen THEN TRUE
                 ELSE _need_to_finalize)
      ]_vars

\* A partial_fit has failed on a dirty aggregator, which stays dirty.
C16_Witness ==
    /\ last.op = "partial_fit" /\ last.outcome # "ok"
    /\ _need_to_finalize /\ seen # <<>>

\* The rows a step has folded in.
Folded == SubSeq(seen', Len(seen) + 1, Len(seen'))

\* C17: a fit that succeeds has folded in the rows of X in order, row j with
\* weight weights[j] when weights were given (there is one for every row) and
\* with weight 1 when not, and
\* each of its partial_fit calls on the engine got as many weights as rows
\* when weights were given and no weights when not.
C17_FitSlicesWeightsWithRows ==
    [][(last'.op = "fit" /\ last'.outcome = "ok") =>
        LET X == last'.args[1]
            weights == last'.args[2]
        IN  /\ Len(Folded) = Len(X.rows)
            /\ weights # None => Len(weights[1]) >= Len(X.rows)
            /\ \A j \in 1..Len(X.rows) :
                   /\ Folded[j].x = X.rows[j]
                   /\ Folded[j].w = (IF weights = None THEN 1 ELSE weights[1][j])
            /\ \A i \in 1..Len(calls') :
                   calls'[i].f = "partial_fit" =>
                       calls'[i].w = (IF weights = None THEN None
                                      ELSE Some(calls'[i].n))
      ]_vars

\* fit has cut two rows with weights 1 and 2 into two batches of one row.
C17_Witness ==
    /\ last.op = "fit" /\ last.outcome = "ok"
    /\ Len(last.args[1].rows) = 2 /\ last.args[2] = Some(<<1, 2>>)
    /\ batch_size = Some(1)
    /\ FinalizeCalls(calls) = 1
    /\ Len(calls) >= 3
    /\ calls[Len(calls) - 1].n = 1 /\ calls[Len(calls) - 2].n = 1

\* C18: no partial_fit, finalize, read or fit, failing or not, changes
\* result_options or batch_size; fit with batch_size = None leaves it None.
C18_ConfigurationImmutable ==
    [][last'.op # "__init__" => UNCHANGED << result_options, batch_size >>]_vars

\* fit has run with batch_size unset, which is unset still.
C18_Witness ==
    /\ last.op = "fit" /\ last.outcome = "ok"
    /\ batch_size = None
    /\ seen # <<>> /\ Len(last.args[1].rows) >= 1

\* C19: a fit that succeeds on an aggregator holding rows A leaves the
\* statistics of A followed by D; when A is D itself, count and sum double.
C19_FitDoesNotReset ==
    [][(last'.op = "fit" /\ last'.outcome = "ok" /\ seen # <<>>) =>
        LET D == Weighted(last'.args[1], last'.args[2])
            before == _onedal_estimator[1].partial
            after == _onedal_estimator'[1].partial
        IN  /\ after = OneShot(seen \o D)
            /\ ~_need_to_finalize'
            /\ \A name \in Requested :
                   onedal_getattr(_onedal_estimator'[1], name)
                       = [outcome |-> "ok", value |-> Derive(name, after)]
            /\ seen = D =>
                   /\ after.count = 2 * before.count
                   /\ \A j \in 1..Len(after.sum) : after.sum[j] = 2 * before.sum[j]
      ]_vars

\* fit has run twice on one aggregator with the same dataset.
C19_Witness ==
    /\ last.op = "fit" /\ last.outcome = "ok"
    /\ Len(last.args[1].rows) >= 1
    /\ seen = Weighted(last.args[1], last.args[2])
              \o Weighted(last.args[1], last.args[2])
    /\ _onedal_estimator[1].partial.count
           = 2 * WeightSum(Weighted(last.args[1], last.args[2]))

\* C20: a dirty aggregator has its engine accumulator, so no read ends in
\* the assertion of finalize; a fit ends in it only on an aggregator without
\* accumulator and for a dataset without rows, having called nothing on the
\* engine and changed nothing, and such a fit never returns a result.
C20_DirtyHasAccumulator ==
    /\ [](_need_to_finalize => hasattr_onedal_estimator(Self))
    /\ [][/\ last'.op = "get" => last'.outcome # "AssertionError"
          /\ (last'.op = "fit" /\ last'.outcome = "AssertionError") =>
                 /\ ~hasattr_onedal_estimator(Self)
                 /\ calls' = <<>>
                 /\ UNCHANGED object
                 /\ \A in \in Inputs, validate_n \in BOOLEAN :
                        Fit(in[1], in[2], validate_n) => in[1].rows = <<>>
          /\ (last'.op = "fit" /\ ~hasattr_onedal_estimator(Self)
                               /\ calls' = <<>>) =>
                 \A in \in Inputs, validate_n \in BOOLEAN :
                     (in[1].rows = <<>> /\ Fit(in[1], in[2], validate_n)) =>
                         last'.outcome = (IF validate_n THEN "ValueError"
                                          ELSE "AssertionError")
         ]_vars

\* fit of a dataset without rows has failed the assertion of finalize on an
\* aggregator that never accumulated.
C20_Witness ==
    /\ last.op = "fit" /\ last.outcome = "AssertionError"
    /\ seen = <<>> /\ ~hasattr_onedal_estimator(Self)
    /\ calls = <<>>

Slices ==
    {dbscan.train[r][1] : r \in {q \in 1..dbscan.size : dbscan.train[q] # None}}
    \cup (IF dbscan.test = None THEN {} ELSE {dbscan.test[1]})

\* C21: the training slices of the ranks 0 .. s-1 and the test slice are each
\* a run of floor(n / (s+1)) consecutive rows within 0 .. n-1, no row is in two
\* of them, and get_data_slice fails its assertion exactly when the chunk
\* index is not below the count.
C21_SlicesDisjointEqualInside ==
    /\ \A sl \in Slices :
           /\ sl.outcome = "ok"
           /\ Len(sl.rows) = dbscan.n_samples \div (dbscan.size + 1)
           /\ \A i \in 1..Len(sl.rows) :
                  /\ sl.rows[i] \in 0..(dbscan.n_samples - 1)
                  /\ i > 1 => sl.rows[i] = sl.rows[i - 1] + 1
    /\ \A a, b \in Slices :
           a.chunk # b.chunk => Range(a.rows) \cap Range(b.rows) = {}
    /\ dbscan.slice # None =>
           (dbscan.slice[1].outcome = "AssertionError")
               = (dbscan.slice[1].chunk >= dbscan.slice[1].count)

\* Two workers and the test slice have cut seven rows into three slices of
\* two, and a chunk index equal to the count was rejected.
C21_Witness ==
    /\ dbscan.n_samples = 7 /\ dbscan.size = 2
    /\ Cardinality(Slices) = 3
    /\ \A sl \in Slices : Len(sl.rows) = 2
    /\ dbscan.slice # None
    /\ dbscan.slice[1].chunk = dbscan.slice[1].count
    /\ dbscan.slice[1].outcome = "AssertionError"

====
